---- MODULE Spec2Model ----
(***************************************************************************)
(* Model of src/snapshot_middleware/mod.rs: the functions get_init_path,  *)
(* get_transformer and snapshot_from_vfs, which decide what a filesystem  *)
(* entry turns into.                                                       *)
(*                                                                         *)
(* A file name is the sequence of its dot-separated components:            *)
(* "foo.server.lua" is <<"foo", "server", "lua">> and ".lua" is            *)
(* <<"", "lua">>.  A suffix ".a.b" is <<"a", "b">>; a name ends with it    *)
(* when its last components are a, b and at least one component (possibly  *)
(* empty) precedes them, which is string ends_with for suffixes that start *)
(* with a dot.  A path is the sequence of its file names.                  *)
(*                                                                         *)
(* The filesystem (vfs) and the override context (ctx) are read-only for   *)
(* the functions modelled, so they are chosen in Init and never change.    *)
(* Metadata probes either find an entry or report "not found"; other I/O   *)
(* errors are not modelled.                                                *)
(***************************************************************************)
EXTENDS Naturals, Sequences, FiniteSets

VARIABLES vfs, ctx, call

vars == <<vfs, ctx, call>>

(***************************************************************************)
(* Bounds of the model.                                                    *)
(***************************************************************************)
\* how many extra leading "foo" components a file name may carry
MaxPrefix == 1

(***************************************************************************)
(* Transformer (crate::snapshot::Transformer) and Option values.           *)
(***************************************************************************)
Variants ==
    {"Project", "LuauModule", "LuauServer", "LuauClient", "Json", "JsonModel",
     "Toml", "Csv", "Plain", "Rbxmx", "Rbxm", "Ignore"}

OtherIds == {"mesh", "custom"}

T(tag) == [tag |-> tag, id |-> ""]

Other(id) == [tag |-> "Other", id |-> id]

Transformers == {T(v) : v \in Variants} \cup {Other(i) : i \in OtherIds}

Some(v) == [some |-> TRUE, val |-> v]

NoTransformer == [some |-> FALSE, val |-> T("")]

(***************************************************************************)
(* Paths and the virtual filesystem.                                       *)
(***************************************************************************)
Join(path, name) == Append(path, name)

FileName(path) == path[Len(path)]

\* vfs.metadata(path).with_not_found(): "NotFound", "File" or "Dir"
Metadata(fs, path) == IF path \in DOMAIN fs THEN fs[path] ELSE "NotFound"

Exists(fs, path) == Metadata(fs, path) # "NotFound"

\* a file name that is not valid UTF-8: to_str() fails on it
InvalidName == <<"<non-utf8>">>

ToStrOk(name) == name # InvalidName

(***************************************************************************)
(* util::PathExt, the suffix matcher.                                      *)
(***************************************************************************)
EndsWith(name, suffix) ==
    /\ Len(name) > Len(suffix)
    /\ SubSeq(name, Len(name) - Len(suffix) + 1, Len(name)) = suffix

file_name_ends_with(path, suffix) ==
    /\ Len(path) > 0
    /\ ToStrOk(FileName(path))
    /\ EndsWith(FileName(path), suffix)

file_name_trim_end(path, suffix) ==
    IF file_name_ends_with(path, suffix)
    THEN [ok |-> TRUE,
          val |-> SubSeq(FileName(path), 1, Len(FileName(path)) - Len(suffix))]
    ELSE [ok |-> FALSE, val |-> <<>>]

(***************************************************************************)
(* get_init_path: the first existing init candidate of a directory, with   *)
(* the sequence of paths it probed.                                        *)
(***************************************************************************)
Found(p, probed) == [some |-> TRUE, val |-> p, probed |-> probed]

\* get_init_path with the client candidates probed before the server ones
GetInitPathClientFirst(fs, path) ==
    LET p1 == Join(path, <<"default", "project", "json">>)
        p2 == Join(path, <<"init", "luau">>)
        p3 == Join(path, <<"init", "lua">>)
        p4 == Join(path, <<"init", "client", "luau">>)
        p5 == Join(path, <<"init", "client", "lua">>)
        p6 == Join(path, <<"init", "server", "luau">>)
        p7 == Join(path, <<"init", "server", "lua">>)
        p8 == Join(path, <<"init", "csv">>)
    IN  IF Exists(fs, p1) THEN Found(p1, <<p1>>)
        ELSE IF Exists(fs, p2) THEN Found(p2, <<p1, p2>>)
        ELSE IF Exists(fs, p3) THEN Found(p3, <<p1, p2, p3>>)
        ELSE IF Exists(fs, p4) THEN Found(p4, <<p1, p2, p3, p4>>)
        ELSE IF Exists(fs, p5) THEN Found(p5, <<p1, p2, p3, p4, p5>>)
        ELSE IF Exists(fs, p6) THEN Found(p6, <<p1, p2, p3, p4, p5, p6>>)
        ELSE IF Exists(fs, p7) THEN Found(p7, <<p1, p2, p3, p4, p5, p6, p7>>)
        ELSE IF Exists(fs, p8) THEN Found(p8, <<p1, p2, p3, p4, p5, p6, p7, p8>>)
        ELSE [some |-> FALSE, val |-> <<>>,
              probed |-> <<p1, p2, p3, p4, p5, p6, p7, p8>>]

GetInitPath(fs, path) ==
    LET p1 == Join(path, <<"default", "project", "json">>)
        p2 == Join(path, <<"init", "luau">>)
        p3 == Join(path, <<"init", "lua">>)
        p4 == Join(path, <<"init", "server", "luau">>)
        p5 == Join(path, <<"init", "server", "lua">>)
        p6 == Join(path, <<"init", "client", "luau">>)
        p7 == Join(path, <<"init", "client", "lua">>)
        p8 == Join(path, <<"init", "csv">>)
    IN  IF Exists(fs, p1) THEN Found(p1, <<p1>>)
        ELSE IF Exists(fs, p2) THEN Found(p2, <<p1, p2>>)
        ELSE IF Exists(fs, p3) THEN Found(p3, <<p1, p2, p3>>)
        ELSE IF Exists(fs, p4) THEN Found(p4, <<p1, p2, p3, p4>>)
        ELSE IF Exists(fs, p5) THEN Found(p5, <<p1, p2, p3, p4, p5>>)
        ELSE IF Exists(fs, p6) THEN Found(p6, <<p1, p2, p3, p4, p5, p6>>)
        ELSE IF Exists(fs, p7) THEN Found(p7, <<p1, p2, p3, p4, p5, p6, p7>>)
        ELSE IF Exists(fs, p8) THEN Found(p8, <<p1, p2, p3, p4, p5, p6, p7, p8>>)
        ELSE [some |-> FALSE, val |-> <<>>,
              probed |-> <<p1, p2, p3, p4, p5, p6, p7, p8>>]

(***************************************************************************)
(* get_transformer: the override of the path if the context has one, else  *)
(* the variant of the first suffix of the chain the file name ends with.   *)
(***************************************************************************)
get_transformer_override(context, path) ==
    IF path \in DOMAIN context THEN Some(context[path]) ELSE NoTransformer

SuffixChain(path) ==
    IF file_name_ends_with(path, <<"server", "lua">>)
          \/ file_name_ends_with(path, <<"server", "luau">>)
    THEN Some(T("LuauServer"))
    ELSE IF file_name_ends_with(path, <<"client", "lua">>)
          \/ file_name_ends_with(path, <<"client", "luau">>)
    THEN Some(T("LuauClient"))
    ELSE IF file_name_ends_with(path, <<"lua">>)
          \/ file_name_ends_with(path, <<"luau">>)
    THEN Some(T("LuauModule"))
    ELSE IF file_name_ends_with(path, <<"project", "json">>)
    THEN Some(T("Project"))
    ELSE IF file_name_ends_with(path, <<"model", "json">>)
    THEN Some(T("JsonModel"))
    ELSE IF file_name_ends_with(path, <<"meta", "json">>)
    THEN NoTransformer
    ELSE IF file_name_ends_with(path, <<"json">>)
    THEN Some(T("Json"))
    ELSE IF file_name_ends_with(path, <<"toml">>)
    THEN Some(T("Toml"))
    ELSE IF file_name_ends_with(path, <<"csv">>)
    THEN Some(T("Csv"))
    ELSE IF file_name_ends_with(path, <<"txt">>)
    THEN Some(T("Plain"))
    ELSE IF file_name_ends_with(path, <<"rbxmx">>)
    THEN Some(T("Rbxmx"))
    ELSE IF file_name_ends_with(path, <<"rbxm">>)
    THEN Some(T("Rbxm"))
    ELSE NoTransformer

\* get_transformer with the generic script suffixes tested first
GetTransformerGenericFirst(context, path) ==
    IF get_transformer_override(context, path).some
    THEN get_transformer_override(context, path)
    ELSE IF file_name_ends_with(path, <<"lua">>)
          \/ file_name_ends_with(path, <<"luau">>)
    THEN Some(T("LuauModule"))
    ELSE SuffixChain(path)

\* get_transformer with the .meta.json rule tested before the override
GetTransformerSidecarFirst(context, path) ==
    IF file_name_ends_with(path, <<"meta", "json">>)
    THEN NoTransformer
    ELSE IF get_transformer_override(context, path).some
    THEN get_transformer_override(context, path)
    ELSE SuffixChain(path)

\* get_transformer without the .meta.json rule
GetTransformerNoSidecar(context, path) ==
    IF get_transformer_override(context, path).some
    THEN get_transformer_override(context, path)
    ELSE IF file_name_ends_with(path, <<"meta", "json">>)
    THEN Some(T("Json"))
    ELSE SuffixChain(path)

GetTransformer(context, path) ==
    IF get_transformer_override(context, path).some
    THEN get_transformer_override(context, path)
    ELSE SuffixChain(path)

(***************************************************************************)
(* snapshot_from_vfs.  A call yields what it returns (ret) and the         *)
(* sequence of its calls on collaborators (events): metadata probes,       *)
(* override lookups and invocations of external transformers.              *)
(***************************************************************************)
Ev(kind, path, fn, script) ==
    [ev |-> kind, path |-> path, fn |-> fn, script |-> script]

\* vfs.metadata(path)
Probe(path) == Ev("metadata", path, "", "")

\* context.get_transformer_override(path)
Lookup(path) == Ev("get_transformer_override", path, "", "")

\* a call of an external transformer; script is the ScriptType argument,
\* "" where the call passes none
Invoke(fn, path, script) == Ev("invoke", path, fn, script)

\* Ok(None) produced by snapshot_from_vfs itself
OkNone == [tag |-> "OkNone", fn |-> "", id |-> ""]

\* anyhow::bail!("Unknown rojo type: {}", id)
UnknownRojoType(id) == [tag |-> "ErrUnknownRojoType", fn |-> "", id |-> id]

\* "Path had an invalid file name"
InvalidFileName == [tag |-> "ErrInvalidFileName", fn |-> "", id |-> ""]

\* the result of the external transformer fn, returned unchanged
ResultOf(fn) == [tag |-> "ResultOf", fn |-> fn, id |-> ""]

\* `return fn(context, vfs, path, script)`
Return(fn, path, script) ==
    [returned |-> TRUE, ret |-> ResultOf(fn),
     events |-> <<Invoke(fn, path, script)>>]

Probes(paths) == [i \in 1..Len(paths) |-> Probe(paths[i])]

\* the match on get_transformer(context, init_path) in the directory branch;
\* returned is FALSE where the arm is `()` and control falls through
InitDispatch(context, init_path) ==
    LET t == GetTransformer(context, init_path)
        fall == [returned |-> FALSE, ret |-> OkNone, events |-> <<>>]
        d == IF ~t.some THEN fall
             ELSE IF t.val = T("Project")
             THEN Return("snapshot_project", init_path, "")
             ELSE IF t.val = T("LuauModule")
             THEN Return("snapshot_lua_init", init_path, "Module")
             ELSE IF t.val = T("LuauServer")
             THEN Return("snapshot_lua_init", init_path, "Server")
             ELSE IF t.val = T("LuauClient")
             THEN Return("snapshot_lua_init", init_path, "Client")
             ELSE IF t.val = T("Csv")
             THEN Return("snapshot_csv_init", init_path, "")
             ELSE IF t.val.tag = "Other"
             THEN [returned |-> TRUE, ret |-> UnknownRojoType(t.val.id),
                   events |-> <<>>]
             ELSE fall
    IN  [returned |-> d.returned, ret |-> d.ret,
         events |-> <<Lookup(init_path)>> \o d.events]

\* the directory branch without the `return` of the init arms
DirBranchFallsThrough(context, fs, path) ==
    LET init == GetInitPath(fs, path)
        d == InitDispatch(context, init.val)
        dir == Invoke("snapshot_dir", path, "")
    IN  IF init.some
        THEN [ret |-> ResultOf("snapshot_dir"),
              events |-> Probes(init.probed) \o d.events \o <<dir>>]
        ELSE [ret |-> ResultOf("snapshot_dir"),
              events |-> Probes(init.probed) \o <<dir>>]

\* if meta.is_dir() { ... }
DirBranch(context, fs, path) ==
    LET init == GetInitPath(fs, path)
        d == InitDispatch(context, init.val)
        dir == Invoke("snapshot_dir", path, "")
    IN  IF init.some /\ d.returned
        THEN [ret |-> d.ret, events |-> Probes(init.probed) \o d.events]
        ELSE IF init.some
        THEN [ret |-> ResultOf("snapshot_dir"),
              events |-> Probes(init.probed) \o d.events \o <<dir>>]
        ELSE [ret |-> ResultOf("snapshot_dir"),
              events |-> Probes(init.probed) \o <<dir>>]

\* script_name: the file name without its .lua or .luau extension
ScriptName(path) ==
    IF file_name_trim_end(path, <<"lua">>).ok
    THEN file_name_trim_end(path, <<"lua">>)
    ELSE file_name_trim_end(path, <<"luau">>)

\* the final match on get_transformer(context, path) in the file branch
FileMatch(context, path) ==
    LET t == GetTransformer(context, path)
        none == [returned |-> TRUE, ret |-> OkNone, events |-> <<>>]
        d == IF ~t.some THEN none
             ELSE IF t.val = T("Project")
             THEN Return("snapshot_project", path, "")
             ELSE IF t.val = T("JsonModel")
             THEN Return("snapshot_json_model", path, "")
             ELSE IF t.val = T("Json")
             THEN Return("snapshot_json", path, "")
             ELSE IF t.val = T("Toml")
             THEN Return("snapshot_toml", path, "")
             ELSE IF t.val = T("Csv")
             THEN Return("snapshot_csv", path, "")
             ELSE IF t.val = T("Plain")
             THEN Return("snapshot_txt", path, "")
             ELSE IF t.val = T("LuauModule")
             THEN Return("snapshot_lua", path, "Module")
             ELSE IF t.val = T("LuauServer")
             THEN Return("snapshot_lua", path, "Server")
             ELSE IF t.val = T("LuauClient")
             THEN Return("snapshot_lua", path, "Client")
             ELSE IF t.val = T("Rbxmx")
             THEN Return("snapshot_rbxmx", path, "")
             ELSE IF t.val = T("Rbxm")
             THEN Return("snapshot_rbxm", path, "")
             ELSE IF t.val.tag = "Other"
             THEN [returned |-> TRUE, ret |-> UnknownRojoType(t.val.id),
                   events |-> <<>>]
             ELSE none
    IN  [ret |-> d.ret, events |-> <<Lookup(path)>> \o d.events]

\* the reserved script names without init.server
ReservedScriptNamesNoServer == {<<"init">>, <<"init", "client">>}

ReservedScriptNames == {<<"init">>, <<"init", "client">>, <<"init", "server">>}

\* no reserved csv name
ReservedCsvNamesNone == {}

ReservedCsvNames == {<<"init">>}

\* } else { ... }: the file branch
FileBranch(context, fs, path) ==
    LET script_name == ScriptName(path)
        csv_name == file_name_trim_end(path, <<"csv">>)
        none == [ret |-> OkNone, events |-> <<>>]
        call1(fn) == [ret |-> ResultOf(fn), events |-> <<Invoke(fn, path, "")>>]
    IN  IF Len(path) = 0 \/ ~ToStrOk(FileName(path))
        THEN [ret |-> InvalidFileName, events |-> <<>>]
        ELSE IF script_name.ok
        THEN IF script_name.val \in ReservedScriptNames
             THEN none
             ELSE call1("snapshot_lua")
        ELSE IF file_name_ends_with(path, <<"project", "json">>)
        THEN call1("snapshot_project")
        ELSE IF file_name_ends_with(path, <<"model", "json">>)
        THEN call1("snapshot_json_model")
        ELSE IF file_name_ends_with(path, <<"meta", "json">>)
        THEN none
        ELSE IF file_name_ends_with(path, <<"json">>)
        THEN call1("snapshot_json")
        ELSE IF file_name_ends_with(path, <<"toml">>)
        THEN call1("snapshot_toml")
        ELSE IF csv_name.ok
        THEN IF csv_name.val \in ReservedCsvNames
             THEN none
             ELSE call1("snapshot_csv")
        ELSE IF file_name_ends_with(path, <<"txt">>)
        THEN call1("snapshot_txt")
        ELSE IF file_name_ends_with(path, <<"rbxmx">>)
        THEN call1("snapshot_rbxmx")
        ELSE IF file_name_ends_with(path, <<"rbxm">>)
        THEN call1("snapshot_rbxm")
        ELSE FileMatch(context, path)

\* snapshot_from_vfs that takes an absent path for a file
SnapshotFromVfsNoAbsentCheck(context, fs, path) ==
    LET meta == Metadata(fs, path)
        r == IF meta = "Dir"
             THEN DirBranch(context, fs, path)
             ELSE FileBranch(context, fs, path)
    IN  [ret |-> r.ret, events |-> <<Probe(path)>> \o r.events]

SnapshotFromVfs(context, fs, path) ==
    LET meta == Metadata(fs, path)
        r == IF meta = "Dir"
             THEN DirBranch(context, fs, path)
             ELSE FileBranch(context, fs, path)
    IN  IF meta = "NotFound"
        THEN [ret |-> OkNone, events |-> <<Probe(path)>>]
        ELSE [ret |-> r.ret, events |-> <<Probe(path)>> \o r.events]

(***************************************************************************)
(* The worlds the functions run in, and their callers.                     *)
(***************************************************************************)
InitNames ==
    {<<"default", "project", "json">>, <<"init", "luau">>, <<"init", "lua">>,
     <<"init", "server", "luau">>, <<"init", "server", "lua">>,
     <<"init", "client", "luau">>, <<"init", "client", "lua">>,
     <<"init", "csv">>}

Prefixes == {[i \in 1..n |-> "foo"] : n \in 0..MaxPrefix}

Cores ==
    {<<>>, <<"">>, <<"init">>, <<"init", "server">>, <<"init", "client">>,
     <<"default">>}

Exts ==
    {<<>>, <<"lua">>, <<"luau">>, <<"server", "lua">>, <<"server", "luau">>,
     <<"client", "lua">>, <<"client", "luau">>, <<"project", "json">>,
     <<"model", "json">>, <<"meta", "json">>, <<"json">>, <<"toml">>,
     <<"csv">>, <<"txt">>, <<"rbxmx">>, <<"rbxm">>, <<"md">>}

Names ==
    ({p \o c \o e : p \in Prefixes, c \in Cores, e \in Exts} \ {<<>>, <<"">>})
        \cup {InvalidName}

NoOverrides == [p \in {} |-> T("")]

Override(path, t) == [p \in {path} |-> t]

Root == << <<"src">> >>

\* a directory holding any combination of the init candidates, with at most
\* one override, on one of the files it holds
InitDirWorld ==
    \E files \in SUBSET InitNames :
        /\ vfs = [p \in {Root} \cup {Join(Root, f) : f \in InitNames} |->
                    IF p = Root THEN "Dir"
                    ELSE IF FileName(p) \in files THEN "File" ELSE "NotFound"]
        /\ \/ ctx = NoOverrides
           \/ \E f \in files, t \in Transformers : ctx = Override(Join(Root, f), t)

\* one path of any name that is absent, a file or an empty directory, with or
\* without an override
InitEntryWorld ==
    \E name \in Names, kind \in {"NotFound", "File", "Dir"} :
        /\ vfs = [p \in {<<name>>} |-> kind]
        /\ \/ ctx = NoOverrides
           \/ \E t \in Transformers : ctx = Override(<<name>>, t)

Idle == [op |-> "idle", path |-> <<>>, ret |-> OkNone, events |-> <<>>]

Init ==
    /\ InitDirWorld \/ InitEntryWorld
    /\ call = Idle

\* snapshot_from_vfs calls get_init_path on the directories it finds
CallGetInitPath ==
    \E path \in DOMAIN vfs :
        /\ vfs[path] = "Dir"
        /\ call' = [op |-> "get_init_path", path |-> path,
                    ret |-> GetInitPath(vfs, path),
                    events |-> Probes(GetInitPath(vfs, path).probed)]
        /\ UNCHANGED <<vfs, ctx>>

\* snapshot_from_vfs calls get_transformer on entries that exist
CallGetTransformer ==
    \E path \in DOMAIN vfs :
        /\ Exists(vfs, path)
        /\ call' = [op |-> "get_transformer", path |-> path,
                    ret |-> GetTransformer(ctx, path),
                    events |-> <<Lookup(path)>>]
        /\ UNCHANGED <<vfs, ctx>>

\* snapshot_from_vfs "can be pointed at any path"
CallSnapshotFromVfs ==
    \E path \in DOMAIN vfs :
        /\ call' = [op |-> "snapshot_from_vfs", path |-> path,
                    ret |-> SnapshotFromVfs(ctx, vfs, path).ret,
                    events |-> SnapshotFromVfs(ctx, vfs, path).events]
        /\ UNCHANGED <<vfs, ctx>>

Next == CallGetInitPath \/ CallGetTransformer \/ CallSnapshotFromVfs

Spec == Init /\ [][Next]_vars

(***************************************************************************)
(* Properties.                                                             *)
(***************************************************************************)
Invoked(events) == SelectSeq(events, LAMBDA e : e.ev = "invoke")

IsSnapshotOf(kind) ==
    /\ call.op = "snapshot_from_vfs"
    /\ Metadata(vfs, call.path) = kind

NoInstance(r) == r.ret = OkNone /\ Invoked(r.events) = <<>>

\* the priority order of the init candidates as the specification states it
InitOrder ==
    << <<"default", "project", "json">>, <<"init", "luau">>, <<"init", "lua">>,
       <<"init", "server", "luau">>, <<"init", "server", "lua">>,
       <<"init", "client", "luau">>, <<"init", "client", "lua">>,
       <<"init", "csv">> >>

Present(dir) == {i \in 1..Len(InitOrder) : Exists(vfs, Join(dir, InitOrder[i]))}

\* C1: get_init_path returns the existing candidate that comes first in the
\* order default.project.json, init.luau, init.lua, init.server.luau,
\* init.server.lua, init.client.luau, init.client.lua, init.csv, and none
\* exactly when no candidate exists.
C1_InitPriority ==
    call.op = "get_init_path" =>
        IF Present(call.path) = {}
        THEN ~call.ret.some
        ELSE /\ call.ret.some
             /\ \E i \in Present(call.path) :
                    /\ \A j \in Present(call.path) : i <= j
                    /\ call.ret.val = Join(call.path, InitOrder[i])

\* a directory holding only a server init and a client init resolved to the
\* server init
C1_Witness ==
    /\ call.op = "get_init_path"
    /\ Present(call.path) = {5, 6}
    /\ call.ret.val = Join(call.path, <<"init", "server", "lua">>)

\* the suffixes and their variants in the order the specification states
SuffixTable ==
    << <<<<"server", "lua">>, Some(T("LuauServer"))>>,
       <<<<"server", "luau">>, Some(T("LuauServer"))>>,
       <<<<"client", "lua">>, Some(T("LuauClient"))>>,
       <<<<"client", "luau">>, Some(T("LuauClient"))>>,
       <<<<"lua">>, Some(T("LuauModule"))>>,
       <<<<"luau">>, Some(T("LuauModule"))>>,
       <<<<"project", "json">>, Some(T("Project"))>>,
       <<<<"model", "json">>, Some(T("JsonModel"))>>,
       <<<<"meta", "json">>, NoTransformer>>,
       <<<<"json">>, Some(T("Json"))>>,
       <<<<"toml">>, Some(T("Toml"))>>,
       <<<<"csv">>, Some(T("Csv"))>>,
       <<<<"txt">>, Some(T("Plain"))>>,
       <<<<"rbxmx">>, Some(T("Rbxmx"))>>,
       <<<<"rbxm">>, Some(T("Rbxm"))>> >>

Matching(path) ==
    {i \in 1..Len(SuffixTable) : file_name_ends_with(path, SuffixTable[i][1])}

\* C2: with no override set, get_transformer returns the variant of the first
\* suffix of the table that the file name ends with, and none when no suffix
\* matches.
C2_FirstSuffixWins ==
    (call.op = "get_transformer" /\ call.path \notin DOMAIN ctx) =>
        IF Matching(call.path) = {}
        THEN call.ret = NoTransformer
        ELSE \E i \in Matching(call.path) :
                /\ \A j \in Matching(call.path) : i <= j
                /\ call.ret = SuffixTable[i][2]

\* foo.server.lua, which also ends with .lua, resolved to LuauServer
C2_Witness ==
    /\ call.op = "get_transformer"
    /\ call.path = << <<"foo", "server", "lua">> >>
    /\ call.path \notin DOMAIN ctx
    /\ call.ret = Some(T("LuauServer"))

\* C3: for a path with an override, get_transformer returns that override,
\* whatever the suffix of the file name is.
C3_OverrideWins ==
    (call.op = "get_transformer" /\ call.path \in DOMAIN ctx) =>
        call.ret = Some(ctx[call.path])

\* a .meta.json file with an override resolved to the override
C3_Witness ==
    /\ call.op = "get_transformer"
    /\ call.path \in DOMAIN ctx
    /\ file_name_ends_with(call.path, <<"meta", "json">>)
    /\ call.ret = Some(ctx[call.path])

\* the reserved file names as the specification lists them
ReservedFileNames ==
    {<<"init", "lua">>, <<"init", "luau">>, <<"init", "client", "lua">>,
     <<"init", "client", "luau">>, <<"init", "server", "lua">>,
     <<"init", "server", "luau">>, <<"init", "csv">>}

\* the transformer each variant stands for in the file branch
ForcedFn(t) ==
    CASE t = T("Project") -> <<"snapshot_project">>
      [] t = T("JsonModel") -> <<"snapshot_json_model">>
      [] t = T("Json") -> <<"snapshot_json">>
      [] t = T("Toml") -> <<"snapshot_toml">>
      [] t = T("Csv") -> <<"snapshot_csv">>
      [] t = T("Plain") -> <<"snapshot_txt">>
      [] t \in {T("LuauModule"), T("LuauServer"), T("LuauClient")} ->
            <<"snapshot_lua">>
      [] t = T("Rbxmx") -> <<"snapshot_rbxmx">>
      [] t = T("Rbxm") -> <<"snapshot_rbxm">>
      [] OTHER -> <<>>

InvokedFns(events) == [i \in 1..Len(Invoked(events)) |-> Invoked(events)[i].fn]

\* C4: on an existing file whose name is not reserved and that has an
\* override, snapshot_from_vfs invokes the transformer of the forced variant
\* (an error for Other, no instance for Ignore), never one chosen from the
\* suffix of the file name.
C4_OverrideDecidesFile ==
    (/\ IsSnapshotOf("File")
     /\ ToStrOk(FileName(call.path))
     /\ FileName(call.path) \notin ReservedFileNames
     /\ call.path \in DOMAIN ctx) =>
        /\ InvokedFns(call.events) = ForcedFn(ctx[call.path])
        /\ call.ret.tag =
              IF ctx[call.path].tag = "Other" THEN "ErrUnknownRojoType"
              ELSE IF ctx[call.path] = T("Ignore") THEN "OkNone"
              ELSE "ResultOf"

FatalUnknown(id) ==
    /\ call.ret = UnknownRojoType(id)
    /\ Invoked(call.events) = <<>>

\* the override of the init file of the directory snapshotted is Other(id):
\* the call ends in the fatal error naming id (part (a) of C5)
DirInitUnknownOverrideIsFatal ==
    (/\ IsSnapshotOf("Dir")
     /\ GetInitPath(vfs, call.path).some
     /\ GetInitPath(vfs, call.path).val \in DOMAIN ctx
     /\ ctx[GetInitPath(vfs, call.path).val].tag = "Other") =>
        FatalUnknown(ctx[GetInitPath(vfs, call.path).val].id)

\* C5: an override Other(id) makes snapshot_from_vfs end in the fatal error
\* naming id and invoke no transformer, (a) when it is on the init file
\* resolved for the directory snapshotted and (b) when it is on an existing
\* file passed directly, whatever its suffix.  Files with a reserved name
\* are left out of (b): they yield no instance (C6), which the
\* specification decides before any transformer is selected.
C5_UnknownOverrideIsFatal ==
    /\ DirInitUnknownOverrideIsFatal
    /\ (/\ IsSnapshotOf("File")
        /\ ToStrOk(FileName(call.path))
        /\ FileName(call.path) \notin ReservedFileNames
        /\ call.path \in DOMAIN ctx
        /\ ctx[call.path].tag = "Other") =>
            FatalUnknown(ctx[call.path].id)

\* C6: snapshot_from_vfs on an existing file with a reserved name (init,
\* init.client or init.server with .lua or .luau; init.csv) returns no
\* instance and invokes no transformer.
C6_ReservedNamesYieldNothing ==
    (IsSnapshotOf("File") /\ FileName(call.path) \in ReservedFileNames) =>
        NoInstance(call)

\* a standalone init.server.luau was snapshotted
C6_Witness ==
    /\ IsSnapshotOf("File")
    /\ call.path = << <<"init", "server", "luau">> >>
    /\ NoInstance(call)

\* C7: for an existing .meta.json file without an override, get_transformer
\* returns none and snapshot_from_vfs returns no instance and invokes no
\* transformer.
C7_SidecarYieldsNothing ==
    (/\ Metadata(vfs, call.path) = "File"
     /\ file_name_ends_with(call.path, <<"meta", "json">>)
     /\ call.path \notin DOMAIN ctx) =>
        /\ call.op = "get_transformer" => call.ret = NoTransformer
        /\ call.op = "snapshot_from_vfs" => NoInstance(call)

\* foo.meta.json without an override was snapshotted
C7_Witness ==
    /\ IsSnapshotOf("File")
    /\ call.path = << <<"foo", "meta", "json">> >>
    /\ call.path \notin DOMAIN ctx
    /\ NoInstance(call)

\* C8: on a path whose metadata probe reports not found, snapshot_from_vfs
\* returns Ok(None) and does nothing but that one probe.
C8_AbsentYieldsNothing ==
    IsSnapshotOf("NotFound") =>
        /\ call.ret = OkNone
        /\ call.events = <<Probe(call.path)>>

\* an absent path that has an override was snapshotted
C8_Witness ==
    /\ IsSnapshotOf("NotFound")
    /\ call.path \in DOMAIN ctx
    /\ call.ret = OkNone

\* C9: one call of snapshot_from_vfs invokes at most one external
\* transformer.
C9_AtMostOneTransformer ==
    call.op = "snapshot_from_vfs" => Len(Invoked(call.events)) <= 1

\* a directory was dispatched to the transformer of its init file
C9_Witness ==
    /\ IsSnapshotOf("Dir")
    /\ GetInitPath(vfs, call.path).some
    /\ Len(Invoked(call.events)) = 1
    /\ Invoked(call.events)[1].fn = "snapshot_lua_init"

DirFlavoured == {"snapshot_project", "snapshot_lua_init", "snapshot_csv_init"}

\* the directory snapshotted was dispatched, as a directory, to init file f
DispatchedInit(f) ==
    /\ IsSnapshotOf("Dir")
    /\ GetInitPath(vfs, call.path) = Found(f, GetInitPath(vfs, call.path).probed)
    /\ Metadata(vfs, f) = "File"
    /\ \E i \in 1..Len(call.events) :
          /\ call.events[i].ev = "invoke"
          /\ call.events[i].fn \in DirFlavoured
          /\ call.events[i].path = f

\* C10 as stated: when snapshot_from_vfs on a directory dispatches its init
\* file F to snapshot_project, snapshot_lua_init or snapshot_csv_init,
\* snapshot_from_vfs on F itself returns no instance and invokes nothing, for
\* every one of the eight candidate names.
C10_InitNeverSnapshottedDirectly ==
    \A f \in DOMAIN vfs :
        DispatchedInit(f) => NoInstance(SnapshotFromVfs(ctx, vfs, f))

\* C10 as amended: the same for the seven init.* candidates, that is every
\* candidate but default.project.json.
C10_InitScriptNeverSnapshottedDirectly ==
    \A f \in DOMAIN vfs :
        (DispatchedInit(f) /\ FileName(f) # <<"default", "project", "json">>) =>
            NoInstance(SnapshotFromVfs(ctx, vfs, f))

\* a directory was dispatched to its init.csv, forced to Project
C10_Witness ==
    /\ DispatchedInit(Join(call.path, <<"init", "csv">>))
    /\ Invoked(call.events)[1].fn = "snapshot_project"

====
